---- MODULE Spec2Model ----
(***************************************************************************)
(* CachedDisk (src/src/cached-disk.ts, second class, lines 176-365): a     *)
(* disk cache in front of an origin Disk.  The index is two sqlite tables  *)
(* (cache, cacheSize), blobs are files named by randomUUID() in the cache  *)
(* directory.  Everything runs on one JavaScript thread: code between two  *)
(* awaits is one atomic step, and every await of an fs or origin call is a *)
(* point where other calls interleave.                                     *)
(***************************************************************************)
EXTENDS Integers, FiniteSets, Sequences, TLC

(* ------------------------------ bounds -------------------------------- *)
NumPaths == 2
NumContents == 2
NumCallers == 2
MaxPops == 3
MaxClock == 1
MaxOps == 5

Paths == 1..NumPaths
Contents == 1..NumContents
Callers == 1..NumCallers
Names == 1..MaxPops

(* ------------------------- program constants -------------------------- *)
DefaultMaxSize == 1000000000
DirectoryKey == "settings.disk.cache.directory"

\* the value the deployment gives settings.disk.cache.maxSize
ConfiguredMaxSize == 2

\* the Config keys the code reads a maximum size from, and a key that is not set
MaxSizeKey == "settings.disk.cache.maxSize"
CleanMaxSizeKey == "cache.maxSize"
MaxSizeKeys == {MaxSizeKey, CleanMaxSizeKey}
Unset == 0

NoFile == 0
NoRow == [cachedPath |-> 0, size |-> 0, lastAccess |-> 0]
NoRes == [kind |-> "none", file |-> 0, size |-> 0, from |-> "none",
          code |-> "", filename |-> 0, key |-> ""]
IdleCall == [pc |-> "idle", op |-> "none", path |-> 0, mode |-> "none",
             entry |-> NoRow, statSize |-> 0, res |-> NoRes, stale |-> FALSE,
             afterDelete |-> FALSE]
NoPop == [pc |-> "unused", path |-> 0, file |-> 0, size |-> 0]

\* byte length of a content
Size(c) == c

VARIABLES
    origin,         \* the origin Disk: path -> content, NoFile when absent
    blobs,          \* cache directory: blob name -> content, NoFile when absent
    cache,          \* table cache: path -> row, NoRow when absent
    cacheSize,      \* table cacheSize: the size column of its single row
    isCleaning,     \* CachedDisk.isCleaning
    dbOpen,         \* CachedDisk._db is set
    dirConfigured,  \* Config has settings.disk.cache.directory
    config,         \* Config: each max-size key -> its value, Unset when not set
    now,            \* Date.now()
    calls,          \* the read / delete calls in flight, one per caller
    pops,           \* the setToCache tasks past their await content, by blob name
    unlinks,        \* blob names whose detached unlink (delete) is in flight
    unhandled,      \* a detached promise has rejected with no handler
    everDeleted,    \* history: paths deleted from the origin
    modified,       \* history: paths whose origin content was changed by a write
    tampered,       \* history: the cache directory was changed out-of-band
    lastPop,        \* history: path -> name of its last completed population
    passes,         \* history: calls of cleanCache that ran to their end
    ops             \* history: calls and out-of-band changes made so far
\* calls[t].stale and calls[t].afterDelete are history too: the read met a row
\* whose blob was gone; the read was called after a delete of its path had
\* completed and while the origin held nothing for it

storeVars == <<origin, blobs, cache, cacheSize>>
progVars == <<isCleaning, dbOpen, now, calls, pops, unlinks, unhandled>>
histVars == <<everDeleted, modified, tampered, lastPop, passes>>
UsesOp == ops < MaxOps /\ ops' = ops + 1
vars == <<origin, blobs, cache, cacheSize, isCleaning, dbOpen, dirConfigured, config,
          now, calls, pops, unlinks, unhandled, everDeleted, modified, tampered,
          lastPop, passes, ops>>

(* ------------------------------ results ------------------------------- *)
Ok(c, sz, src) == [NoRes EXCEPT !.kind = "ok", !.file = c, !.size = sz, !.from = src]
FileDoesNotExist(p) == [NoRes EXCEPT !.kind = "err", !.code = "FileDoesNotExist",
                                     !.filename = p, !.from = "origin"]
ConfigNotFoundError == [NoRes EXCEPT !.kind = "err", !.code = "ConfigNotFoundError",
                                     !.key = DirectoryKey, !.from = "config"]
IoError == [NoRes EXCEPT !.kind = "err", !.code = "EIO", !.from = "cache"]

(* ------------------------------ origin -------------------------------- *)
\* disk.read(path, mode): the file and its size, or FileDoesNotExist
OriginRead(o, p) == IF o[p] = NoFile THEN FileDoesNotExist(p)
                    ELSE Ok(o[p], Size(o[p]), "origin")

\* disk.readSize(path): the size of the file, or FileDoesNotExist
OriginReadSize(o, p) == IF o[p] = NoFile THEN FileDoesNotExist(p)
                        ELSE Ok(NoFile, Size(o[p]), "origin")

(* ------------------------------- index -------------------------------- *)
\* get db(): opens the database under the cache directory on first use
DbThrows == ~dbOpen /\ ~dirConfigured

\* a lookup that never finds a row
isCachedNever(c, p) == FALSE

\* isCached(path): the row of path, or false
isCached(c, p) == c[p] # NoRow

\* getPath(path) throws ConfigNotFoundError without a configured directory
GetPathThrows == ~dirConfigured

(* -------------------- JavaScript values of the trigger ---------------- *)
\* Statement.get() of better-sqlite3 returns the row as an object {size: n}
GetCacheSizeRow == [t |-> "obj", v |-> cacheSize]
Num(n) == [t |-> "num", v |-> n]
\* a + b: numbers add, an object operand makes it a string concatenation
JsPlus(a, b) == IF a.t = "num" /\ b.t = "num" THEN Num(a.v + b.v)
                ELSE [t |-> "str", v |-> 0]
\* a > b: both sides go through ToNumber; "[object Object]..." is NaN
IsNaN(a) == a.t # "num"
JsGreater(a, b) == ~IsNaN(a) /\ ~IsNaN(b) /\ a.v > b.v

\* a trigger that compares the numbers and does not look at the flag
TriggersCleanOnOverflow(size) == cacheSize + size > ConfiguredMaxSize

\* Config.get(key, 'number', default)
ConfigGet(key, default) == IF config[key] = Unset THEN default ELSE config[key]

\* Config.get('settings.disk.cache.maxSize', 'number', 1000000000) of setToCache
TriggerMaxSize == ConfigGet(MaxSizeKey, DefaultMaxSize)

\* setToCache, lines 314-315: the row of cacheSize plus the incoming size
\* against the maximum
OverflowTest(size) ==
    JsGreater(JsPlus(GetCacheSizeRow, Num(size)), Num(TriggerMaxSize))

\* setToCache, lines 312-316: the condition that calls cleanCache
TriggersClean(size) == isCleaning /\ OverflowTest(size)

\* cleanCache, lines 340-346, up to its first await: the guard returns at once
\* when isCleaning is set; otherwise the flag is set and the loop is entered
CleanCacheGuardReturns == isCleaning

(* ------------------------------- Init --------------------------------- *)
Init ==
    /\ origin = [p \in Paths |-> NoFile]
    /\ blobs = [n \in Names |-> NoFile]
    /\ cache = [p \in Paths |-> NoRow]
    /\ cacheSize = 0
    /\ isCleaning = FALSE
    /\ dbOpen = FALSE
    /\ dirConfigured = TRUE
    /\ config = [k \in MaxSizeKeys |-> IF k = MaxSizeKey THEN ConfiguredMaxSize ELSE Unset]
    /\ now = 0
    /\ calls = [t \in Callers |-> IdleCall]
    /\ pops = [n \in Names |-> NoPop]
    /\ unlinks = {}
    /\ unhandled = FALSE
    /\ everDeleted = {}
    /\ modified = {}
    /\ tampered = FALSE
    /\ lastPop = [p \in Paths |-> 0]
    /\ passes = 0
    /\ ops = 0

(* ------------------------------ helpers ------------------------------- *)
Done(call, r) == [call EXCEPT !.pc = "done", !.res = r, !.entry = NoRow, !.statSize = 0]

\* randomUUID(): a name is fresh when nothing in the system mentions it
FreeName(k) ==
    /\ pops[k].pc # "write"
    /\ blobs[k] = NoFile
    /\ k \notin unlinks
    /\ \A p \in Paths : cache[p].cachedPath # k
    /\ \A t \in Callers : calls[t].entry.cachedPath # k
NewName == CHOOSE k \in Names : FreeName(k) /\ \A j \in Names : FreeName(j) => k <= j

\* a hit that leaves lastAccess as it is
TouchNever(c, p, ts) == c

\* UPDATE cache SET lastAccess = ? without its WHERE
TouchAll(c, p, ts) ==
    [q \in Paths |-> IF c[q] = NoRow THEN NoRow ELSE [c[q] EXCEPT !.lastAccess = ts]]

\* UPDATE cache SET lastAccess = ? WHERE path = ?
Touch(c, p, ts) == IF c[p] = NoRow THEN c ELSE [c EXCEPT ![p].lastAccess = ts]

\* DELETE FROM cache without its WHERE
DeleteRowsAll(c, p) == [q \in Paths |-> NoRow]

\* DELETE FROM cache WHERE path = ?
DeleteRow(c, p) == [c EXCEPT ![p] = NoRow]

\* INSERT OR IGNORE: an existing row of the path is kept
UpsertIgnore(c, p, n, sz, ts) ==
    IF c[p] # NoRow THEN c
    ELSE [c EXCEPT ![p] = [cachedPath |-> n, size |-> sz, lastAccess |-> ts]]

\* INSERT OR REPLACE INTO cache VALUES (path, name, size, Date.now())
Upsert(c, p, n, sz, ts) ==
    [c EXCEPT ![p] = [cachedPath |-> n, size |-> sz, lastAccess |-> ts]]

(* -------------------------------- read -------------------------------- *)
\* read(path, content) up to its first await, on index c: a thrown
\* ConfigNotFoundError, a hit waiting for stat, or a miss waiting for the origin
ReadEnter(call, p, m, c) ==
    LET base == [call EXCEPT !.op = "read", !.path = p, !.mode = m] IN
    IF DbThrows THEN Done(base, ConfigNotFoundError)
    ELSE IF isCached(c, p)
         THEN IF GetPathThrows THEN Done(base, ConfigNotFoundError)
              ELSE [base EXCEPT !.pc = "stat", !.entry = c[p]]
         ELSE [base EXCEPT !.pc = "origin", !.entry = NoRow]

\* a catch block that rethrows ENOENT like any other error
CatchEnoentRethrows(call) == Done(call, IoError)

\* the catch block of getFromCache on ENOENT, up to its await unlink
CatchEnoent(call) ==
    IF GetPathThrows THEN Done(call, ConfigNotFoundError)
    ELSE [call EXCEPT !.pc = "purge", !.stale = TRUE]

\* a hit that measures the bytes it hands over
HitResultSizeOfContent(content, statSize) == Ok(content, Size(content), "cache")

\* what a hit hands to the caller: the blob's bytes and the size stat gave
HitResult(content, statSize) == Ok(content, statSize, "cache")

\* the reads in flight, each of which may come to need a blob name, and the
\* names that are taken
ReadsInFlight == {t \in Callers : calls[t].op = "read" /\ calls[t].pc # "done"}
NamesTaken == {k \in Names : ~FreeName(k)}

\* a read is called only while a blob name is left for it: randomUUID() never
\* runs out of names, so no read waits for one
ReadCall(t, p, m) ==
    /\ calls[t].pc = "idle"
    /\ Cardinality(ReadsInFlight) + Cardinality(NamesTaken) < MaxPops
    /\ calls' = [calls EXCEPT ![t] =
         [ReadEnter(calls[t], p, m, cache) EXCEPT
            !.afterDelete = (p \in everDeleted /\ origin[p] = NoFile)]]
    /\ dbOpen' = (dbOpen \/ ~DbThrows)
    /\ UsesOp
    /\ UNCHANGED <<storeVars, isCleaning, dirConfigured, config, now, pops, unlinks,
                   unhandled, histVars>>

\* await stat(...) of getFromCache completes
StatDone(t) ==
    LET call == calls[t]
        n == call.entry.cachedPath IN
    /\ call.pc = "stat"
    /\ IF blobs[n] # NoFile
       THEN /\ cache' = Touch(cache, call.path, now)
            /\ calls' = [calls EXCEPT ![t] =
                 IF GetPathThrows THEN Done(call, ConfigNotFoundError)
                 ELSE IF call.mode = "buffer"
                      THEN [call EXCEPT !.pc = "readFile", !.statSize = Size(blobs[n])]
                      ELSE Done(call, HitResult(blobs[n], Size(blobs[n])))]
       ELSE /\ cache' = cache
            /\ calls' = [calls EXCEPT ![t] = CatchEnoent(call)]
    /\ ops' = ops
    /\ UNCHANGED <<origin, blobs, cacheSize, isCleaning, dbOpen, dirConfigured, config, now,
                   pops, unlinks, unhandled, histVars>>

\* await readFile(...) of getFromCache completes (mode 'buffer')
ReadFileDone(t) ==
    LET call == calls[t]
        n == call.entry.cachedPath IN
    /\ call.pc = "readFile"
    /\ calls' = [calls EXCEPT ![t] =
         IF blobs[n] # NoFile THEN Done(call, HitResult(blobs[n], call.statSize))
         ELSE CatchEnoent(call)]
    /\ ops' = ops
    /\ UNCHANGED <<storeVars, isCleaning, dbOpen, dirConfigured, config, now, pops, unlinks,
                   unhandled, histVars>>

\* a purge that leaves the row in the index and calls read again
PurgeDoneKeepsRow(t) ==
    LET call == calls[t]
        n == call.entry.cachedPath IN
    /\ call.pc = "purge"
    /\ blobs' = [blobs EXCEPT ![n] = NoFile]
    /\ calls' = [calls EXCEPT ![t] = ReadEnter(call, call.path, call.mode, cache)]
    /\ ops' = ops
    /\ UNCHANGED <<origin, cache, cacheSize, isCleaning, dbOpen, dirConfigured, config, now,
                   pops, unlinks, unhandled, histVars>>

\* await unlink(...).catch of the ENOENT branch completes: the row of the path
\* is deleted and read is called again
PurgeDone(t) ==
    LET call == calls[t]
        n == call.entry.cachedPath
        c1 == DeleteRow(cache, call.path) IN
    /\ call.pc = "purge"
    /\ blobs' = [blobs EXCEPT ![n] = NoFile]
    /\ cache' = c1
    /\ calls' = [calls EXCEPT ![t] = ReadEnter(call, call.path, call.mode, c1)]
    /\ ops' = ops
    /\ UNCHANGED <<origin, cacheSize, isCleaning, dbOpen, dirConfigured, config, now, pops,
                   unlinks, unhandled, histVars>>

\* a read that awaits setToCache before it returns: the blob, the total and
\* the row are written in the step that hands over the result
OriginReadDoneAwaitsPopulation(t) ==
    LET call == calls[t]
        a == OriginRead(origin, call.path) IN
    /\ call.pc = "origin"
    /\ a.kind = "ok" => \E k \in Names : FreeName(k)
    /\ calls' = [calls EXCEPT ![t] = Done(call, a)]
    /\ IF a.kind = "err"
       THEN /\ unhandled' = TRUE
            /\ UNCHANGED <<pops, blobs, cache, cacheSize>>
       ELSE /\ unhandled' = unhandled
            /\ blobs' = [blobs EXCEPT ![NewName] = a.file]
            /\ cacheSize' = cacheSize + a.size
            /\ cache' = [cache EXCEPT ![call.path] =
                 [cachedPath |-> NewName, size |-> a.size, lastAccess |-> now]]
            /\ pops' = [pops EXCEPT ![NewName] =
                 [NoPop EXCEPT !.pc = "done", !.path = call.path, !.file = a.file]]
    /\ ops' = ops
    /\ UNCHANGED <<origin, isCleaning, dbOpen, dirConfigured, config, now, unlinks, histVars>>

\* a read that catches the origin's rejection, wraps it, and whose setToCache
\* goes on to write an empty blob for the path
OriginReadDoneCachesFailure(t) ==
    LET call == calls[t]
        a == OriginRead(origin, call.path) IN
    /\ call.pc = "origin"
    /\ ~GetPathThrows
    /\ \E k \in Names : FreeName(k)
    /\ calls' = [calls EXCEPT ![t] = Done(call, IF a.kind = "err" THEN IoError ELSE a)]
    /\ pops' = [pops EXCEPT ![NewName] =
         [pc |-> "write", path |-> call.path, file |-> a.file, size |-> a.size]]
    /\ ops' = ops
    /\ UNCHANGED <<storeVars, isCleaning, dbOpen, dirConfigured, config, now, unlinks,
                   unhandled, histVars>>

\* a setToCache that writes the total and the row before it writes the blob
OriginReadDoneRowFirst(t) ==
    LET call == calls[t]
        a == OriginRead(origin, call.path) IN
    /\ call.pc = "origin"
    /\ (a.kind = "ok" /\ ~GetPathThrows) => \E k \in Names : FreeName(k)
    /\ calls' = [calls EXCEPT ![t] = Done(call, a)]
    /\ IF a.kind = "err" \/ GetPathThrows
       THEN /\ unhandled' = TRUE
            /\ UNCHANGED <<pops, cache, cacheSize>>
       ELSE /\ unhandled' = unhandled
            /\ cacheSize' = cacheSize + a.size
            /\ cache' = Upsert(cache, call.path, NewName, a.size, now)
            /\ pops' = [pops EXCEPT ![NewName] =
                 [pc |-> "write", path |-> call.path, file |-> a.file, size |-> 0]]
    /\ ops' = ops
    /\ UNCHANGED <<origin, blobs, isCleaning, dbOpen, dirConfigured, config, now,
                   unlinks, histVars>>

\* the promise of disk.read settles: the caller gets it, and setToCache, which
\* awaits the same promise, runs up to its await of the blob write
OriginReadDone(t) ==
    LET call == calls[t]
        a == OriginRead(origin, call.path) IN
    /\ call.pc = "origin"
    /\ (a.kind = "ok" /\ ~GetPathThrows) => \E k \in Names : FreeName(k)
    /\ calls' = [calls EXCEPT ![t] = Done(call, a)]
    /\ IF a.kind = "err"
       THEN /\ unhandled' = TRUE
            /\ UNCHANGED <<pops, isCleaning>>
       ELSE /\ isCleaning' = (isCleaning \/ (TriggersClean(a.size) /\ ~CleanCacheGuardReturns))
            /\ IF GetPathThrows
               THEN /\ unhandled' = TRUE
                    /\ pops' = pops
               ELSE /\ unhandled' = unhandled
                    /\ pops' = [pops EXCEPT ![NewName] =
                         [pc |-> "write", path |-> call.path, file |-> a.file,
                          size |-> a.size]]
    /\ ops' = ops
    /\ UNCHANGED <<storeVars, dbOpen, dirConfigured, config, now, unlinks, histVars>>

\* a write that stops after the first byte
BlobWrittenTruncated(pop) == 1

\* a write that creates no file
BlobWriteSkipped(pop) == NoFile

\* what writeFile(cachedPath, file) / pipeline(file, createWriteStream(cachedPath))
\* leave in the blob
BlobWritten(pop) == pop.file

\* a population that writes its row and leaves the total as it is
PopWriteDoneNoTotal(k) ==
    LET pop == pops[k] IN
    /\ pop.pc = "write"
    /\ blobs' = [blobs EXCEPT ![k] = BlobWritten(pop)]
    /\ cache' = Upsert(cache, pop.path, k, pop.size, now)
    /\ pops' = [pops EXCEPT ![k] = [pop EXCEPT !.pc = "done", !.size = 0]]
    /\ lastPop' = [lastPop EXCEPT ![pop.path] = k]
    /\ ops' = ops
    /\ UNCHANGED <<origin, cacheSize, isCleaning, dbOpen, dirConfigured, config, now,
                   calls, unlinks, unhandled, everDeleted, modified, tampered, passes>>

\* await writeFile / pipeline of setToCache completes: total and row are written
PopWriteDone(k) ==
    LET pop == pops[k] IN
    /\ pop.pc = "write"
    /\ blobs' = [blobs EXCEPT ![k] = BlobWritten(pop)]
    /\ cacheSize' = cacheSize + pop.size
    /\ cache' = Upsert(cache, pop.path, k, pop.size, now)
    /\ pops' = [pops EXCEPT ![k] = [pop EXCEPT !.pc = "done", !.size = 0]]
    /\ lastPop' = [lastPop EXCEPT ![pop.path] = k]
    /\ ops' = ops
    /\ UNCHANGED <<origin, isCleaning, dbOpen, dirConfigured, config, now, calls, unlinks,
                   unhandled, everDeleted, modified, tampered, passes>>

(* ------------------------------- delete ------------------------------- *)
\* a delete that returns at once when the path is not cached
DeleteCallCachedOnly(t, p) ==
    LET row == cache[p]
        call == [calls[t] EXCEPT !.op = "delete", !.path = p, !.entry = row] IN
    /\ calls[t].pc = "idle"
    /\ dbOpen' = TRUE
    /\ IF isCached(cache, p)
       THEN /\ calls' = [calls EXCEPT ![t] = [call EXCEPT !.pc = "originDelete"]]
            /\ unlinks' = unlinks \cup {row.cachedPath}
            /\ cache' = DeleteRow(cache, p)
            /\ cacheSize' = cacheSize - row.size
       ELSE /\ calls' = [calls EXCEPT ![t] =
                 Done(call, [NoRes EXCEPT !.kind = "ok", !.from = "cache"])]
            /\ UNCHANGED <<cache, cacheSize, unlinks>>
    /\ UsesOp
    /\ UNCHANGED <<origin, blobs, isCleaning, dirConfigured, config, now, pops, unhandled,
                   histVars>>

\* a delete that asks the origin first and leaves the cache for afterwards
DeleteCallDefersCleanup(t, p) ==
    LET row == cache[p]
        call == [calls[t] EXCEPT !.op = "delete", !.path = p, !.entry = row] IN
    /\ calls[t].pc = "idle"
    /\ dbOpen' = (dbOpen \/ ~DbThrows)
    /\ calls' = [calls EXCEPT ![t] = [call EXCEPT !.pc = "originDelete"]]
    /\ UsesOp
    /\ UNCHANGED <<storeVars, isCleaning, dirConfigured, config, now, pops, unlinks,
                   unhandled, histVars>>

DeleteCall(t, p) ==
    LET row == cache[p]
        call == [calls[t] EXCEPT !.op = "delete", !.path = p, !.entry = row]
        throws == DbThrows \/ (isCached(cache, p) /\ GetPathThrows) IN
    /\ calls[t].pc = "idle"
    /\ dbOpen' = (dbOpen \/ ~DbThrows)
    /\ IF throws
       THEN /\ calls' = [calls EXCEPT ![t] = Done(call, ConfigNotFoundError)]
            /\ UNCHANGED <<cache, cacheSize, unlinks>>
       ELSE /\ calls' = [calls EXCEPT ![t] = [call EXCEPT !.pc = "originDelete"]]
            /\ IF isCached(cache, p)
               THEN /\ unlinks' = unlinks \cup {row.cachedPath}
                    /\ cache' = DeleteRow(cache, p)
                    /\ cacheSize' = cacheSize - row.size
               ELSE UNCHANGED <<cache, cacheSize, unlinks>>
    /\ UsesOp
    /\ UNCHANGED <<origin, blobs, isCleaning, dirConfigured, config, now, pops, unhandled,
                   histVars>>

\* the detached unlink of delete completes; its error is caught
UnlinkDone(n) ==
    /\ n \in unlinks
    /\ unlinks' = unlinks \ {n}
    /\ blobs' = [blobs EXCEPT ![n] = NoFile]
    /\ ops' = ops
    /\ UNCHANGED <<origin, cache, cacheSize, isCleaning, dbOpen, dirConfigured, config, now,
                   calls, pops, unhandled, histVars>>

\* the promise of disk.delete settles; the row that delete found stays with
\* the call until the caller has taken the result
OriginDeleteDone(t) ==
    LET call == calls[t]
        p == call.path
        settled(r) == [Done(call, r) EXCEPT !.entry = call.entry] IN
    /\ call.pc = "originDelete"
    /\ IF origin[p] = NoFile
       THEN /\ calls' = [calls EXCEPT ![t] = settled(FileDoesNotExist(p))]
            /\ UNCHANGED <<origin, everDeleted>>
       ELSE /\ calls' = [calls EXCEPT ![t] = settled([NoRes EXCEPT !.kind = "ok",
                                                                  !.from = "origin"])]
            /\ origin' = [origin EXCEPT ![p] = NoFile]
            /\ everDeleted' = everDeleted \cup {p}
    /\ ops' = ops
    /\ UNCHANGED <<blobs, cache, cacheSize, isCleaning, dbOpen, dirConfigured, config, now,
                   pops, unlinks, unhandled, modified, tampered, lastPop, passes>>

(* ------------------------------ readSize ------------------------------ *)
\* a readSize that answers from the index when the path is cached
ReadSizeFromIndex(t, p) ==
    /\ calls[t].pc = "idle"
    /\ ~DbThrows
    /\ dbOpen' = TRUE
    /\ calls' = [calls EXCEPT ![t] =
         Done([calls[t] EXCEPT !.op = "readSize", !.path = p],
              IF isCached(cache, p) THEN Ok(NoFile, cache[p].size, "cache")
              ELSE OriginReadSize(origin, p))]
    /\ cache' = Touch(cache, p, now)
    /\ UsesOp
    /\ UNCHANGED <<origin, blobs, cacheSize, isCleaning, dirConfigured, config, now, pops,
                   unlinks, unhandled, histVars>>

\* readSize(path): the promise of this.disk.readSize(path), call and settlement
ReadSize(t, p) ==
    /\ calls[t].pc = "idle"
    /\ calls' = [calls EXCEPT ![t] =
         Done([calls[t] EXCEPT !.op = "readSize", !.path = p], OriginReadSize(origin, p))]
    /\ UsesOp
    /\ UNCHANGED <<storeVars, isCleaning, dbOpen, dirConfigured, config, now, pops, unlinks,
                   unhandled, histVars>>

(* ------------------------------- write -------------------------------- *)
\* a write that also drops the cache entry of the written path
WriteInvalidates(p, c) ==
    /\ origin[p] # c
    /\ origin' = [origin EXCEPT ![p] = c]
    /\ modified' = IF origin[p] # NoFile THEN modified \cup {p} ELSE modified
    /\ cache' = DeleteRow(cache, p)
    /\ cacheSize' = cacheSize - cache[p].size
    /\ UsesOp
    /\ UNCHANGED <<blobs, isCleaning, dbOpen, dirConfigured, config, now,
                   calls, pops, unlinks, unhandled, everDeleted, tampered, lastPop,
                   passes>>

\* write(dirname, content, {name}): forwarded to the origin
Write(p, c) ==
    /\ origin[p] # c
    /\ origin' = [origin EXCEPT ![p] = c]
    /\ modified' = IF origin[p] # NoFile THEN modified \cup {p} ELSE modified
    /\ UsesOp
    /\ UNCHANGED <<blobs, cache, cacheSize, isCleaning, dbOpen, dirConfigured, config, now,
                   calls, pops, unlinks, unhandled, everDeleted, tampered, lastPop,
                   passes>>

(* ---------------------------- environment ----------------------------- *)
\* the caller has taken the result of its call
CallerReturn(t) ==
    /\ calls[t].pc = "done"
    /\ calls' = [calls EXCEPT ![t] = IdleCall]
    /\ ops' = ops
    /\ UNCHANGED <<storeVars, isCleaning, dbOpen, dirConfigured, config, now, pops, unlinks,
                   unhandled, histVars>>

Tick ==
    /\ now < MaxClock
    /\ now' = now + 1
    /\ ops' = ops
    /\ UNCHANGED <<storeVars, isCleaning, dbOpen, dirConfigured, config, calls, pops, unlinks,
                   unhandled, histVars>>

\* out-of-band: a blob is removed from the cache directory
TamperUnlink(n) ==
    /\ blobs[n] # NoFile
    /\ blobs' = [blobs EXCEPT ![n] = NoFile]
    /\ tampered' = TRUE
    /\ UsesOp
    /\ UNCHANGED <<origin, cache, cacheSize, isCleaning, dbOpen, dirConfigured, config, now,
                   calls, pops, unlinks, unhandled, everDeleted, modified, lastPop,
                   passes>>

\* out-of-band: a blob is overwritten
TamperWrite(n, c) ==
    /\ blobs[n] \notin {NoFile, c}
    /\ blobs' = [blobs EXCEPT ![n] = c]
    /\ tampered' = TRUE
    /\ UsesOp
    /\ UNCHANGED <<origin, cache, cacheSize, isCleaning, dbOpen, dirConfigured, config, now,
                   calls, pops, unlinks, unhandled, everDeleted, modified, lastPop,
                   passes>>

(* --------------------------- specifications --------------------------- *)
Modes == {"buffer", "stream"}

ProgramStep ==
    \/ \E t \in Callers : StatDone(t)
    \/ \E t \in Callers : ReadFileDone(t)
    \/ \E t \in Callers : PurgeDone(t)
    \/ \E t \in Callers : OriginReadDone(t)
    \/ \E k \in Names : PopWriteDone(k)
    \/ \E n \in Names : UnlinkDone(n)
    \/ \E t \in Callers : OriginDeleteDone(t)

Next ==
    \/ \E t \in Callers, p \in Paths, m \in Modes : ReadCall(t, p, m)
    \/ \E t \in Callers, p \in Paths : DeleteCall(t, p)
    \/ \E t \in Callers, p \in Paths : ReadSize(t, p)
    \/ \E p \in Paths, c \in Contents : Write(p, c)
    \/ \E t \in Callers : StatDone(t)
    \/ \E t \in Callers : ReadFileDone(t)
    \/ \E t \in Callers : PurgeDone(t)
    \/ \E t \in Callers : OriginReadDone(t)
    \/ \E k \in Names : PopWriteDone(k)
    \/ \E n \in Names : UnlinkDone(n)
    \/ \E t \in Callers : OriginDeleteDone(t)
    \/ \E t \in Callers : CallerReturn(t)
    \/ Tick
    \/ \E n \in Names : TamperUnlink(n)
    \/ \E n \in Names, c \in Contents : TamperWrite(n, c)

Spec == Init /\ [][Next]_vars

\* every fs call, origin call and continuation that is pending settles; the
\* callers and the out-of-band changes are under no obligation
Fairness ==
    /\ \A t \in Callers : WF_vars(StatDone(t))
    /\ \A t \in Callers : WF_vars(ReadFileDone(t))
    /\ \A t \in Callers : WF_vars(PurgeDone(t))
    /\ \A t \in Callers : WF_vars(OriginReadDone(t))
    /\ \A k \in Names : WF_vars(PopWriteDone(k))
    /\ \A n \in Names : WF_vars(UnlinkDone(n))
    /\ \A t \in Callers : WF_vars(OriginDeleteDone(t))

FairSpec == Spec /\ Fairness

(* ------------------------------- faults ------------------------------- *)
\* Config.remove('settings.disk.cache.directory')
ConfigRemove ==
    /\ dirConfigured
    /\ dirConfigured' = FALSE
    /\ UsesOp
    /\ UNCHANGED <<storeVars, progVars, histVars, config>>

\* Config.set('settings.disk.cache.directory', 'cache')
ConfigSet ==
    /\ ~dirConfigured
    /\ dirConfigured' = TRUE
    /\ UsesOp
    /\ UNCHANGED <<storeVars, progVars, histVars, config>>

\* the bytes a failed write may leave in the file
Partial == 1

\* await writeFile / pipeline of setToCache rejects: setToCache rejects, total
\* and row are not written, the file may be left behind
PopWriteFail(k, left) ==
    LET pop == pops[k] IN
    /\ pop.pc = "write"
    /\ blobs' = [blobs EXCEPT ![k] = IF left THEN Partial ELSE NoFile]
    /\ pops' = [pops EXCEPT ![k] = [NoPop EXCEPT !.pc = "done", !.path = pop.path]]
    /\ unhandled' = TRUE
    /\ UsesOp
    /\ UNCHANGED <<origin, cache, cacheSize, isCleaning, dbOpen, dirConfigured, config, now,
                   calls, unlinks, histVars>>

\* a catch block that takes every error of stat for a missing blob
StatFailAsMissing(t) ==
    /\ calls[t].pc = "stat"
    /\ calls' = [calls EXCEPT ![t] = CatchEnoent(calls[t])]
    /\ UsesOp
    /\ UNCHANGED <<storeVars, isCleaning, dbOpen, dirConfigured, config, now, pops, unlinks,
                   unhandled, histVars>>

\* await stat rejects with an error other than ENOENT: the catch rethrows it
StatFail(t) ==
    /\ calls[t].pc = "stat"
    /\ calls' = [calls EXCEPT ![t] = Done(calls[t], IoError)]
    /\ UsesOp
    /\ UNCHANGED <<storeVars, isCleaning, dbOpen, dirConfigured, config, now, pops, unlinks,
                   unhandled, histVars>>

\* await readFile rejects with an error other than ENOENT: the catch rethrows it
ReadFileFail(t) ==
    /\ calls[t].pc = "readFile"
    /\ calls' = [calls EXCEPT ![t] = Done(calls[t], IoError)]
    /\ UsesOp
    /\ UNCHANGED <<storeVars, isCleaning, dbOpen, dirConfigured, config, now, pops, unlinks,
                   unhandled, histVars>>

FaultNext ==
    \/ Next
    \/ ConfigRemove
    \/ ConfigSet
    \/ \E k \in Names, left \in BOOLEAN : PopWriteFail(k, left)
    \/ \E t \in Callers : StatFail(t)
    \/ \E t \in Callers : ReadFileFail(t)

\* the program with a configuration that changes and fs calls that fail
FaultSpec == Init /\ [][FaultNext]_vars

(* ------------------------------ eviction ------------------------------ *)
\* Config.get('cache.maxSize', 'number', 1000000000) of cleanCache: the
\* deployment sets settings.disk.cache.maxSize and not this key
CleanCacheMaxSize == ConfigGet(CleanMaxSizeKey, DefaultMaxSize)

\* max * 0.75, rounded down: a whole number of bytes exceeds max * 0.75
\* exactly when it exceeds this
Watermark(max) == 3 * (max \div 4) + (3 * (max % 4)) \div 4

\* cleanCache, lines 343-345: the loop guard, the row object against a number
CleanLoopGuard ==
    LET row == GetCacheSizeRow IN ~IsNaN(row) /\ row.v > Watermark(CleanCacheMaxSize)

\* SELECT * FROM cache ORDER BY lastAccess ASC LIMIT 1: the rows it may return
Victims(c) ==
    {p \in Paths : /\ isCached(c, p)
                   /\ \A q \in Paths : isCached(c, q) => c[p].lastAccess <= c[q].lastAccess}

\* cleanCache() called on its own, up to its first await: the guard, the flag,
\* the loop guard (which opens the database), and, the loop guard being false,
\* the flag again.  A pass that entered the loop and found a row would be left
\* suspended at its await unlink with the flag up; a pass whose database
\* cannot be opened rejects with the flag up.
CleanCacheCall ==
    /\ IF CleanCacheGuardReturns
       THEN UNCHANGED <<isCleaning, passes, dbOpen>>
       ELSE /\ dbOpen' = (dbOpen \/ ~DbThrows)
            /\ IF DbThrows \/ (CleanLoopGuard /\ Victims(cache) # {})
               THEN isCleaning' = TRUE /\ passes' = passes
               ELSE isCleaning' = FALSE /\ passes' = passes + 1
    /\ UsesOp
    /\ UNCHANGED <<storeVars, dirConfigured, config, now, calls, pops, unlinks,
                   unhandled, everDeleted, modified, tampered, lastPop>>

EvictNext ==
    \/ Next
    \/ CleanCacheCall

\* the program, and cleanCache called directly: the program itself never gets
\* past the trigger of setToCache to call it
EvictSpec == Init /\ [][EvictNext]_vars

(* ---------------------------- configuration --------------------------- *)
\* the values a max-size key is given
MaxSizes == {1, ConfiguredMaxSize}

\* Config.set(key, v), or Config.remove(key) for v = Unset
ConfigSetMaxSize(key, v) ==
    /\ config[key] # v
    /\ config' = [config EXCEPT ![key] = v]
    /\ UsesOp
    /\ UNCHANGED <<storeVars, progVars, histVars, dirConfigured>>

ConfigNext ==
    \/ EvictNext
    \/ \E key \in MaxSizeKeys, v \in MaxSizes \cup {Unset} : ConfigSetMaxSize(key, v)

\* the program and cleanCache under every setting of the two max-size keys
ConfigSpec == Init /\ [][ConfigNext]_vars

(* ------------------------------ claims -------------------------------- *)
\* the step in which the read of caller t hands its result to the caller
ReadDelivers(t) ==
    /\ calls[t].pc # "done"
    /\ calls'[t].pc = "done"
    /\ calls'[t].op = "read"

\* the result is the content the origin holds for p, with its size
SameAsOrigin(r, p) ==
    /\ r.kind = "ok"
    /\ r.file = origin[p]
    /\ r.size = Size(origin[p])

\* C1 as stated: a read of a path that the origin holds and that was never
\* deleted from the origin, with the cache directory untouched out-of-band,
\* returns the content the origin holds, on a miss and on a hit, in both modes.
C1_TransparencyUnlessDeleted ==
    [][\A t \in Callers :
         (/\ ReadDelivers(t)
          /\ origin[calls'[t].path] # NoFile
          /\ calls'[t].path \notin everDeleted
          /\ ~tampered)
         => SameAsOrigin(calls'[t].res, calls'[t].path)]_vars

\* C1 amended: the same for a path that in addition was never overwritten at
\* the origin with different content.
C1_Transparency ==
    [][\A t \in Callers :
         (/\ ReadDelivers(t)
          /\ origin[calls'[t].path] # NoFile
          /\ calls'[t].path \notin everDeleted
          /\ calls'[t].path \notin modified
          /\ ~tampered)
         => SameAsOrigin(calls'[t].res, calls'[t].path)]_vars

\* a hit on a never deleted, never modified path, cache directory untouched
C1_Witness ==
    \E t \in Callers :
        /\ calls[t].pc = "done"
        /\ calls[t].op = "read"
        /\ calls[t].res.kind = "ok"
        /\ calls[t].res.from = "cache"
        /\ calls[t].path \notin (everDeleted \cup modified)
        /\ ~tampered

\* the blob that the read of caller t is about in this step: the one its row
\* names when the call is made, the one of its cacheEntry afterwards
BlobOfRead(t) ==
    IF calls[t].pc = "idle" THEN cache[calls'[t].path].cachedPath
    ELSE calls[t].entry.cachedPath

\* C2: a step of read(path, mode) that finds an index entry (at the call) whose
\* blob exists (at the call, at stat, at readFile) never turns to the origin's
\* read or to the purge, and when it hands over the result, the result is the
\* blob's current content, whatever the origin holds.
C2_HitServedFromBlob ==
    [][\A t \in Callers :
         (/\ calls'[t] # calls[t]
          /\ calls[t].pc \in {"idle", "stat", "readFile"}
          /\ calls'[t].op = "read"
          /\ BlobOfRead(t) # 0
          /\ blobs[BlobOfRead(t)] # NoFile)
         => /\ calls'[t].pc \in {"stat", "readFile", "done"}
            /\ calls'[t].pc = "done" =>
                 /\ calls'[t].res.kind = "ok"
                 /\ calls'[t].res.from = "cache"
                 /\ calls'[t].res.file = blobs[BlobOfRead(t)]]_vars

\* a hit handed the caller the blob's bytes while the origin holds other bytes
C2_Witness ==
    \E t \in Callers :
        /\ calls[t].pc = "done"
        /\ calls[t].op = "read"
        /\ calls[t].res.kind = "ok"
        /\ calls[t].res.from = "cache"
        /\ origin[calls[t].path] # NoFile
        /\ calls[t].res.file # origin[calls[t].path]
        /\ tampered

\* the blobs in the cache directory that populations of path p wrote
BlobsFor(p) == {n \in Names : blobs[n] # NoFile /\ pops[n].path = p}

\* a read of p that missed has returned content c: its population is writing
MissReturned(p, c) ==
    \E k \in Names : pops[k].pc = "write" /\ pops[k].path = p /\ pops[k].file = c

\* exactly one blob exists for p, it holds c, and the row of p names it
Populated(p, c) ==
    \E n \in Names :
        /\ cache[p].cachedPath = n
        /\ blobs[n] = c
        /\ BlobsFor(p) = {n}

\* C3: after a read of p that missed has returned content c (blob writes
\* succeed), a state is reached in which exactly one blob exists for p, holding
\* c, and the index row of p names it.
C3_Population ==
    \A p \in Paths, c \in Contents : MissReturned(p, c) ~> Populated(p, c)

\* the read of caller t found a row whose blob was gone, has returned content
\* of p, and its population is in flight
StaleReadReturned(t, p) ==
    /\ calls[t].pc = "done"
    /\ calls[t].op = "read"
    /\ calls[t].stale
    /\ calls[t].path = p
    /\ calls[t].res.kind = "ok"
    /\ \E k \in Names : /\ pops[k].pc = "write"
                        /\ pops[k].path = p
                        /\ pops[k].file = calls[t].res.file

\* the index has a row for p and the blob it names exists
Repopulated(p) == cache[p] # NoRow /\ blobs[cache[p].cachedPath] # NoFile

\* C4: a read that finds an index row whose blob is gone raises no error (it
\* goes on to the purge), the purge removes the row of the path and turns to
\* the origin, the caller gets what the origin holds now (its content when it
\* holds the path), and after the read has returned the path gets a row and a
\* blob again.
C4_StalenessTolerance ==
    /\ [][\A t \in Callers :
            /\ (/\ calls[t].pc \in {"stat", "readFile"}
                /\ calls'[t] # calls[t]
                /\ blobs[calls[t].entry.cachedPath] = NoFile)
                 => calls'[t].pc = "purge"
            /\ (calls[t].pc = "purge" /\ calls'[t].pc # "purge")
                 => /\ ~isCached(cache', calls[t].path)
                    /\ calls'[t].pc = "origin"
            /\ (ReadDelivers(t) /\ calls[t].stale)
                 => calls'[t].res = OriginRead(origin, calls[t].path)]_vars
    /\ \A p \in Paths :
         (\E t \in Callers : StaleReadReturned(t, p)) ~> Repopulated(p)

\* a read that met a stale row has returned the origin's content
C4_Witness ==
    \E t \in Callers, p \in Paths :
        /\ StaleReadReturned(t, p)
        /\ tampered
        /\ calls[t].res.file = origin[p]

\* the step in which the delete of caller t resolves successfully
DeleteResolves(t) ==
    /\ calls[t].pc = "originDelete"
    /\ calls'[t].pc = "done"
    /\ calls'[t].res.kind = "ok"

\* C5: when the promise of delete(path) resolves, the origin holds nothing for
\* the path, the index has no row for it, and the blob that delete found
\* cached for it is gone from the cache directory.
C5_Deletion ==
    [][\A t \in Callers :
         DeleteResolves(t) =>
            /\ origin'[calls[t].path] = NoFile
            /\ ~isCached(cache', calls[t].path)
            /\ calls[t].entry # NoRow => blobs'[calls[t].entry.cachedPath] = NoFile]_vars

\* the step in which the delete of caller t settles
DeleteSettles(t) ==
    /\ calls[t].pc # "done"
    /\ calls'[t].pc = "done"
    /\ calls'[t].op = "delete"

\* C6: a delete(path) that settles while the origin holds nothing for the path
\* fails with the origin's FileDoesNotExist carrying that path, and every
\* failure of delete is that error of the origin.
C6_DeleteNotFound ==
    [][\A t \in Callers :
         DeleteSettles(t) =>
            /\ origin[calls'[t].path] = NoFile
                 => calls'[t].res = FileDoesNotExist(calls'[t].path)
            /\ calls'[t].res.kind = "err"
                 => calls'[t].res = FileDoesNotExist(calls'[t].path)]_vars

\* a second delete of a path, after a delete that succeeded, has failed
C6_Witness ==
    \E t \in Callers :
        /\ calls[t].pc = "done"
        /\ calls[t].op = "delete"
        /\ calls[t].path \in everDeleted
        /\ calls[t].res = FileDoesNotExist(calls[t].path)

\* the step in which caller t calls read or delete
Calls(t) ==
    /\ calls[t].pc = "idle"
    /\ calls'[t].pc # "idle"
    /\ calls'[t].op \in {"read", "delete"}

\* C7: a read or delete called while no cache directory is configured throws
\* ConfigNotFoundError with key 'settings.disk.cache.directory' in the call
\* itself: nothing is asked of the origin or of the fs.
C7_ConfigFailFast ==
    [][\A t \in Callers :
         (Calls(t) /\ ~dirConfigured) =>
            /\ calls'[t].pc = "done"
            /\ calls'[t].res = ConfigNotFoundError
            /\ calls'[t].res.key = DirectoryKey]_vars

\* the step in which a read that missed hands the origin's content to caller t
MissDelivers(t) ==
    /\ calls[t].pc = "origin"
    /\ ReadDelivers(t)
    /\ calls'[t].res.kind = "ok"

\* C8: the step that hands the origin's result of a miss to the caller writes
\* no blob, no row and no total: the population of that content is then still
\* waiting for its blob write.
C8_MissDoesNotWaitForPopulation ==
    [][\A t \in Callers :
         MissDelivers(t) =>
            /\ calls'[t].res = OriginRead(origin, calls[t].path)
            /\ <<blobs', cache', cacheSize'>> = <<blobs, cache, cacheSize>>
            /\ \E k \in Names :
                 /\ pops[k].pc # "write"
                 /\ pops'[k].pc = "write"
                 /\ pops'[k].path = calls[t].path
                 /\ pops'[k].file = calls'[t].res.file]_vars

\* the caller has taken the result of its miss and gone on; the population of
\* that path has not written its blob or its row yet
C8_Witness ==
    /\ \A t \in Callers : calls[t].pc = "idle"
    /\ \E k \in Names :
         /\ pops[k].pc = "write"
         /\ blobs[k] = NoFile
         /\ ~isCached(cache, pops[k].path)

\* C9: no failure of the populate routine leaves the cache layer: setToCache
\* never rejects without a handler.
C9_PopulationFailuresSwallowed == ~unhandled

\* the stored total exceeds the configured maximum
OverMaxSize == cacheSize > ConfiguredMaxSize

\* the stored total is below 75% of the maximum, or the index has no rows
CleanedDown ==
    \/ 4 * cacheSize < 3 * ConfiguredMaxSize
    \/ \A p \in Paths : ~isCached(cache, p)

\* C10: from every state in which the stored total exceeds the configured
\* maximum, a state is reached in which the total is below 75% of the maximum
\* or the index has no entries.
C10_SizeBound == OverMaxSize ~> CleanedDown

\* a further population is in flight while the stored total exceeds the maximum
PopulationWhileOverMax ==
    /\ OverMaxSize
    /\ \E k \in Names : pops[k].pc = "write"

\* the totals that are at most 75% of the maximum
WatermarkTotals == {n \in 0..ConfiguredMaxSize : 4 * n <= 3 * ConfiguredMaxSize}

\* the stored total is at most 75% of the maximum
AtWatermark == cacheSize \in WatermarkTotals

Quiescent ==
    /\ \A t \in Callers : calls[t].pc \in {"idle", "done"}
    /\ \A k \in Names : pops[k].pc # "write"
    /\ unlinks = {}

\* the sum of size over the rows of the paths in S
RECURSIVE SumSizes(_, _)
SumSizes(c, S) ==
    IF S = {} THEN 0
    ELSE LET p == CHOOSE q \in S : TRUE IN c[p].size + SumSizes(c, S \ {p})

\* C12 (I1): in every state with nothing in flight, the stored total equals
\* the sum of size over all index entries.
C12_TotalIsSum == Quiescent => cacheSize = SumSizes(cache, Paths)

\* C13 (I2): in every state with nothing in flight and the cache directory
\* untouched out-of-band, the blob named by each index entry exists.
C13_EntriesHaveBlobs ==
    (Quiescent /\ ~tampered) =>
        \A p \in Paths : isCached(cache, p) => blobs[cache[p].cachedPath] # NoFile

\* nothing in flight, directory untouched, a delete has succeeded and an entry
\* with its blob is in the cache
C13_Witness ==
    /\ Quiescent
    /\ ~tampered
    /\ everDeleted # {}
    /\ \E p \in Paths : isCached(cache, p) /\ blobs[cache[p].cachedPath] # NoFile

\* C15: a read of a path that is called after a delete of that path has
\* completed, while the origin holds nothing for the path, is never served
\* from the cache: whatever the cache holds for the path was cached before the
\* delete.
C15_NoResurrectionAfterDelete ==
    [][\A t \in Callers :
         (ReadDelivers(t) /\ calls'[t].afterDelete) => calls'[t].res.from # "cache"]_vars

\* the step is a write: the origin gets content for some path
OriginWritten == \E p \in Paths : origin'[p] \notin {origin[p], NoFile}

\* C16: a write changes the origin only: the index entries, the stored total
\* and the blobs are as before, so the row and the blob of a cached path stay
\* what they were when the origin's content of the path changes.
C16_WritePassThrough ==
    [][OriginWritten =>
         /\ cache' = cache
         /\ cacheSize' = cacheSize
         /\ blobs' = blobs
         /\ dbOpen' = dbOpen]_vars

\* a path whose origin content was overwritten is served from the cache with
\* the content cached before, the cache directory untouched
C16_Witness ==
    \E t \in Callers :
        /\ calls[t].pc = "done"
        /\ calls[t].op = "read"
        /\ calls[t].res.kind = "ok"
        /\ calls[t].res.from = "cache"
        /\ calls[t].path \in modified
        /\ origin[calls[t].path] # NoFile
        /\ calls[t].res.file # origin[calls[t].path]
        /\ ~tampered

\* the step in which caller t calls readSize and gets its answer
ReadSizeSettles(t) == calls[t].pc = "idle" /\ calls'[t].op = "readSize"

\* C17: readSize(path) settles with the origin's answer, its size or its
\* error, and leaves the index (which it does not even open), the stored
\* total, every lastAccess and every blob as they were, cached path or not.
C17_ReadSizePassThrough ==
    [][\A t \in Callers :
         ReadSizeSettles(t) =>
            /\ calls'[t].res = OriginReadSize(origin, calls'[t].path)
            /\ cache' = cache
            /\ cacheSize' = cacheSize
            /\ blobs' = blobs
            /\ dbOpen' = dbOpen]_vars

\* readSize of a cached path has answered with the origin's size, which is not
\* the size in the path's index entry
C17_Witness ==
    \E t \in Callers :
        /\ calls[t].pc = "done"
        /\ calls[t].op = "readSize"
        /\ calls[t].res.kind = "ok"
        /\ isCached(cache, calls[t].path)
        /\ calls[t].res.size # cache[calls[t].path].size
        /\ calls[t].res.size = Size(origin[calls[t].path])

\* the step in which the read of caller t hands over a result from the cache
HitDelivers(t) ==
    /\ ReadDelivers(t)
    /\ calls'[t].res.kind = "ok"
    /\ calls'[t].res.from = "cache"

\* C18: the row a read finds for its path names the most recent successfully
\* completed population of the path, and with the cache directory untouched
\* the hit returns the content that population was given, whole.
C18_HitReflectsLastPopulation ==
    [][\A t \in Callers :
         /\ (Calls(t) /\ calls'[t].pc = "stat")
              => calls'[t].entry.cachedPath = lastPop[calls'[t].path]
         /\ (HitDelivers(t) /\ ~tampered)
              => /\ calls'[t].res.file = pops[calls[t].entry.cachedPath].file
                 /\ pops[calls[t].entry.cachedPath].path = calls[t].path
                 /\ pops[calls[t].entry.cachedPath].pc = "done"]_vars

\* two populations of a path with different contents have completed, and a
\* hit has returned the content of the later one
C18_Witness ==
    \E t \in Callers, k \in Names :
        /\ calls[t].pc = "done"
        /\ calls[t].op = "read"
        /\ calls[t].res.kind = "ok"
        /\ calls[t].res.from = "cache"
        /\ ~tampered
        /\ pops[k].pc = "done"
        /\ pops[k].path = calls[t].path
        /\ pops[k].file # NoFile
        /\ k # lastPop[calls[t].path]
        /\ blobs[k] \notin {NoFile, calls[t].res.file}
        /\ calls[t].res.file = pops[lastPop[calls[t].path]].file

\* the step in which the read of caller t, a miss, settles with a failure
MissFails(t) ==
    /\ calls[t].pc = "origin"
    /\ ReadDelivers(t)
    /\ calls'[t].res.kind = "err"

\* C19: when the origin's read fails on a miss, the caller gets the origin's
\* error itself, and no population is started: no blob, no row, no change of
\* the stored total.
C19_OriginFailureOnMiss ==
    [][\A t \in Callers :
         MissFails(t) =>
            /\ calls'[t].res = OriginRead(origin, calls[t].path)
            /\ calls'[t].res = FileDoesNotExist(calls[t].path)
            /\ pops' = pops
            /\ blobs' = blobs
            /\ cache' = cache
            /\ cacheSize' = cacheSize]_vars

\* a miss has failed with the origin's error and nothing is cached for the path
C19_Witness ==
    \E t \in Callers :
        /\ calls[t].pc = "done"
        /\ calls[t].op = "read"
        /\ calls[t].res = FileDoesNotExist(calls[t].path)
        /\ ~isCached(cache, calls[t].path)
        /\ \A k \in Names : pops[k].path # calls[t].path
        /\ cacheSize = 0

PassCompletes == passes' = passes + 1

\* the index has no rows
IndexEmpty == \A p \in Paths : ~isCached(cache, p)

\* C22: a call of cleanCache that runs to its end leaves isCleaning false, and
\* leaves the stored total at most 0.75 * maxSize or the index without rows:
\* its loop has removed entries for as long as the total was above the
\* watermark and rows were left.
C22_PassTerminates ==
    [][PassCompletes => /\ ~isCleaning'
                        /\ AtWatermark' \/ IndexEmpty']_vars

\* C24: a delete of a cached path removes the row and lowers the total by the
\* row's size in the call itself, before the origin's delete has done anything
\* (the origin is as it was and its promise is pending), and the step in which
\* the origin's delete fails puts nothing back: index and total stay as the
\* cleanup left them.
C24_DeleteCleanupFirst ==
    [][\A t \in Callers :
         /\ (Calls(t) /\ calls'[t].op = "delete" /\ isCached(cache, calls'[t].path))
              => /\ calls'[t].pc = "originDelete"
                 /\ ~isCached(cache', calls'[t].path)
                 /\ cacheSize' = cacheSize - cache[calls'[t].path].size
                 /\ origin' = origin
         /\ (DeleteSettles(t) /\ calls[t].pc = "originDelete"
                               /\ calls'[t].res.kind = "err")
              => /\ cache' = cache
                 /\ cacheSize' = cacheSize
                 /\ origin' = origin]_vars

\* a delete that found a row for its path has failed with the origin's error,
\* and the index has no row for the path
C24_Witness ==
    \E t \in Callers :
        /\ calls[t].pc = "done"
        /\ calls[t].op = "delete"
        /\ calls[t].res = FileDoesNotExist(calls[t].path)
        /\ calls[t].entry # NoRow
        /\ ~isCached(cache, calls[t].path)

\* the read of caller t is in flight
ReadInFlight(t) == calls[t].op = "read" /\ calls[t].pc \notin {"idle", "done"}

\* the call of caller t has settled
Settled(t) == calls[t].pc = "done"

\* C25: a read that has met a stale row goes from the purge to the origin's
\* read and from there to its result: it never looks at the index entry, stat
\* or readFile a second time, so a call retries at most once; and every read
\* in flight settles, with a result or with an error.
C25_StaleRetryBounded ==
    /\ [][\A t \in Callers :
            (calls[t].stale /\ calls'[t] # calls[t] /\ ReadInFlight(t))
              => /\ calls[t].pc = "purge" => calls'[t].pc = "origin"
                 /\ calls[t].pc = "origin" => calls'[t].pc = "done"
                 /\ calls[t].pc \in {"purge", "origin"}]_vars
    /\ \A t \in Callers : ReadInFlight(t) ~> Settled(t)

\* a read that met a stale row and went to the origin once has settled
C25_Witness ==
    \E t \in Callers :
        /\ calls[t].pc = "done"
        /\ calls[t].op = "read"
        /\ calls[t].stale
        /\ calls[t].res.from = "origin"

\* the rows of c without their lastAccess
RowsOf(c) == [p \in Paths |-> [cachedPath |-> c[p].cachedPath, size |-> c[p].size]]

\* C26: on a hit only a missing blob sends the read to the purge and the
\* origin; any other failure of stat or readFile settles the read with that
\* error, not with anything from the origin, and leaves every index row, the
\* total, the blobs and the populations as they were.
C26_HitFailurePropagated ==
    [][\A t \in Callers :
         (calls[t].pc \in {"stat", "readFile"} /\ calls'[t] # calls[t])
           => /\ calls'[t].pc = "purge" => blobs[calls[t].entry.cachedPath] = NoFile
              /\ calls'[t].pc \in {"readFile", "purge", "done"}
              /\ calls'[t].res.kind = "err"
                   => /\ calls'[t].pc = "done"
                      /\ calls'[t].res \in {IoError, ConfigNotFoundError}
                      /\ RowsOf(cache') = RowsOf(cache)
                      /\ <<cacheSize', blobs', pops', origin'>>
                           = <<cacheSize, blobs, pops, origin>>]_vars

\* a hit has failed with the error of the fs while the blob is there, and the
\* row of the path is still in the index
C26_Witness ==
    \E t \in Callers :
        /\ calls[t].pc = "done"
        /\ calls[t].op = "read"
        /\ calls[t].res = IoError
        /\ isCached(cache, calls[t].path)
        /\ blobs[cache[calls[t].path].cachedPath] # NoFile

\* the step in which the population writing blob k completes
PopCompletes(k) == pops[k].pc = "write" /\ pops'[k].pc = "done"

\* C27: the step in which a population of a path completes leaves the path
\* with one row, which names the blob that population wrote, whatever row an
\* earlier population of the path had left; so whenever a path has a row, the
\* row names the blob of the population of the path that completed last.
C27_LastPopulationWins ==
    /\ [][\A k \in Names :
            PopCompletes(k)
              => /\ cache'[pops[k].path].cachedPath = k
                 /\ cache'[pops[k].path].size = pops[k].size
                 /\ blobs'[k] = pops[k].file
                 /\ \A q \in Paths \ {pops[k].path} : cache'[q] = cache[q]]_vars
    /\ [](\A p \in Paths : isCached(cache, p) => cache[p].cachedPath = lastPop[p])

\* two reads of a path missed together, both populations have completed and
\* both blobs are there; the row names the blob of the one that came last
C27_Witness ==
    \E p \in Paths, j \in Names, k \in Names :
        /\ j # k
        /\ pops[j].pc = "done" /\ pops[j].path = p /\ blobs[j] # NoFile
        /\ pops[k].pc = "done" /\ pops[k].path = p /\ blobs[k] # NoFile
        /\ ~tampered
        /\ unlinks = {}
        /\ everDeleted = {}
        /\ lastPop[p] = k
        /\ cache[p].cachedPath = k
        /\ \A t \in Callers : calls[t].pc = "done" /\ calls[t].res.from = "origin"
                                /\ calls[t].path = p

\* the step in which the stat of the hit of caller t finds the blob
StatFindsBlob(t) ==
    /\ calls[t].pc = "stat"
    /\ calls'[t] # calls[t]
    /\ blobs[calls[t].entry.cachedPath] # NoFile

\* C28: the step of a hit that finds the blob sets the lastAccess of the row
\* of the path to the current time; after it no row has a larger lastAccess,
\* and the path is not among the rows the eviction's SELECT may return as
\* long as a row with a strictly smaller lastAccess exists.
C28_RecencyRefresh ==
    [][\A t \in Callers :
         (StatFindsBlob(t) /\ isCached(cache, calls[t].path))
           => LET p == calls[t].path IN
              /\ isCached(cache', p)
              /\ cache'[p].lastAccess = now
              /\ \A q \in Paths : cache'[q].lastAccess <= cache'[p].lastAccess
              /\ (\E q \in Paths : /\ isCached(cache', q)
                                    /\ cache'[q].lastAccess < cache'[p].lastAccess)
                   => p \notin Victims(cache')]_vars

\* a hit on a path cached at an earlier time has returned: its row carries the
\* current time, and the row of the other path, older, is the one the
\* eviction's SELECT returns
C28_Witness ==
    \E t \in Callers, q \in Paths :
        /\ calls[t].pc = "done"
        /\ calls[t].op = "read"
        /\ calls[t].res.kind = "ok"
        /\ calls[t].res.from = "cache"
        /\ q # calls[t].path
        /\ now > 0
        /\ cache[calls[t].path].lastAccess = now
        /\ isCached(cache, q)
        /\ cache[q].lastAccess < now
        /\ Victims(cache) = {q}

\* C30 as stated: the size a hit returns is the size in the index entry the
\* read found, in both modes.
C30_HitSizeIsIndexSize ==
    [][\A t \in Callers :
         HitDelivers(t) => calls'[t].res.size = calls[t].entry.size]_vars

\* C30 amended: the size a hit returns is the size stat reported for the blob
\* (in mode 'buffer' the one taken before readFile, in mode 'stream' the one
\* of the step that hands over the stream), and with the cache directory
\* untouched out-of-band that is the size in the index entry the read found.
C30_HitSizeIsStatSize ==
    [][\A t \in Callers :
         /\ (StatFindsBlob(t) /\ calls'[t].pc = "readFile")
              => calls'[t].statSize = Size(blobs[calls[t].entry.cachedPath])
         /\ HitDelivers(t)
              => calls'[t].res.size =
                   IF calls[t].pc = "stat" THEN Size(blobs[calls[t].entry.cachedPath])
                   ELSE calls[t].statSize
         /\ (HitDelivers(t) /\ ~tampered)
              => calls'[t].res.size = calls[t].entry.size]_vars

\* a hit on a blob overwritten out-of-band has returned the size of the file
\* as it is now, which is not the size in the row of the path
C30_Witness ==
    \E t \in Callers :
        /\ calls[t].pc = "done"
        /\ calls[t].op = "read"
        /\ calls[t].res.kind = "ok"
        /\ calls[t].res.from = "cache"
        /\ tampered
        /\ isCached(cache, calls[t].path)
        /\ calls[t].res.size # cache[calls[t].path].size
        /\ calls[t].res.size = Size(blobs[cache[calls[t].path].cachedPath])

C32_NoOrphanedBlobs ==
    Quiescent =>
        \A n \in Names : blobs[n] # NoFile => \E p \in Paths : cache[p].cachedPath = n

\* the population that wrote blob k for path p has run to its end
PopulationFinished(k, p) ==
    /\ pops[k].pc = "done"
    /\ pops[k].path = p
    /\ pops[k].file # NoFile

\* C33: the blob a row names was written by a population of the row's path
\* that has finished, and with the cache directory untouched out-of-band that
\* blob is there and holds the whole content the population was given; the
\* blob a hit in flight is about comes from a finished population as well.  No
\* read sees a row whose blob is still being written.
C33_RowAfterBlob ==
    /\ \A p \in Paths :
         isCached(cache, p) =>
            /\ PopulationFinished(cache[p].cachedPath, p)
            /\ ~tampered => blobs[cache[p].cachedPath] = pops[cache[p].cachedPath].file
    /\ \A t \in Callers :
         calls[t].pc \in {"stat", "readFile"} =>
            PopulationFinished(calls[t].entry.cachedPath, calls[t].path)

\* a read has found the row of a finished population, whose blob is whole,
\* while another population of the same path is still writing its blob
C33_Witness ==
    \E t \in Callers, j \in Names :
        /\ calls[t].pc = "stat"
        /\ blobs[calls[t].entry.cachedPath] = pops[calls[t].entry.cachedPath].file
        /\ pops[j].pc = "write"
        /\ pops[j].path = calls[t].path
        /\ blobs[j] = NoFile
        /\ ~tampered

C35_SameMaximum ==
    [][PassCompletes => CleanCacheMaxSize = TriggerMaxSize]_vars

\* C38: in every state the overflow test is true exactly when the stored
\* total plus the incoming size exceeds the maximum, for every incoming size,
\* and the loop guard is true exactly when the stored total exceeds 0.75 times
\* the maximum cleanCache reads.
C38_NumericTests ==
    /\ \A c \in Contents :
         OverflowTest(Size(c)) <=> (cacheSize + Size(c) > TriggerMaxSize)
    /\ CleanLoopGuard <=> (cacheSize > Watermark(CleanCacheMaxSize))

\* a step of a read that is served from the cache: the call that finds the
\* row, the stat that finds the blob, the step that hands over the result
HitStep(t) ==
    \/ Calls(t) /\ calls'[t].op = "read" /\ calls'[t].pc = "stat"
    \/ StatFindsBlob(t)
    \/ HitDelivers(t)

C37_DeleteFrame ==
    [][/\ \A t \in Callers :
            (Calls(t) /\ calls'[t].op = "delete") =>
               LET p == calls'[t].path IN
               /\ calls'[t].pc = "originDelete"
               /\ \A q \in Paths \ {p} : cache'[q] = cache[q]
               /\ ~isCached(cache', p)
               /\ cacheSize' = cacheSize - cache[p].size
               /\ blobs' = blobs
               /\ origin' = origin
               /\ unlinks' = IF isCached(cache, p) THEN unlinks \cup {cache[p].cachedPath}
                              ELSE unlinks
       /\ \A n \in Names :
            (n \in unlinks /\ n \notin unlinks') =>
               /\ \A m \in Names \ {n} : blobs'[m] = blobs[m]
               /\ blobs'[n] = NoFile
               /\ <<cache', cacheSize'>> = <<cache, cacheSize>>]_vars

\* a delete of a cached path has removed its row and its blob, and the row
\* and the blob of the other path are there
C37_Witness ==
    \E t \in Callers, q \in Paths :
        /\ calls[t].op = "delete"
        /\ calls[t].pc \in {"originDelete", "done"}
        /\ calls[t].entry # NoRow
        /\ q # calls[t].path
        /\ ~isCached(cache, calls[t].path)
        /\ blobs[calls[t].entry.cachedPath] = NoFile
        /\ unlinks = {}
        /\ isCached(cache, q)
        /\ blobs[cache[q].cachedPath] # NoFile
        /\ cacheSize = cache[q].size

====
